---- MODULE Spec2Model ----
(***************************************************************************)
(* HTrace C client, core/span.c: the span record, the normalisation of its *)
(* parent-identifier set, and the two-pass (size, then write) JSON encoder. *)
(***************************************************************************)
EXTENDS Integers, Sequences, FiniteSets, TLC

VARIABLES
    sp,     \* the caller's struct htrace_span pointer: "NULL", "live", "freed"
    span,   \* the fields of *span (meaningful while sp = "live")
    heap,   \* the allocator's view: status of every block, contents of lists
    err,    \* memory errors observed so far (invalid free, invalid access)
    hist,   \* history: the last operation and what the parent set was before it
    out     \* what the last encoder calls returned and left in the caller's buffer
vars == <<sp, span, heap, err, hist, out>>

---------------------------------------------------------------------------
(* Bounds of the model *)

\* most parent identifiers a span holds in the life-cycle specification
MaxParents == 5
\* most parent identifiers of a span handed to the encoder specification
MaxEncParents == 2

---------------------------------------------------------------------------
(* uint64_t: four 16-bit limbs, most significant first *)

LimbBase == 2^16
U64(a, b, c, d) == <<a, b, c, d>>
Id0 == U64(0, 0, 0, 0)
Id1 == U64(0, 0, 0, 1)
Id3 == U64(0, 0, 0, 3)
Id5 == U64(0, 0, 0, 5)
Id7 == U64(0, 0, 0, 7)
Id9 == U64(0, 0, 0, 9)
\* 0x8000000000000003: top bit set, low 32 bits equal to those of Id3
IdTop3 == U64(2^15, 0, 0, 3)

\* a < b on uint64_t
RECURSIVE LtFrom(_, _, _)
LtFrom(a, b, i) ==
    IF i > Len(a) THEN FALSE
    ELSE IF a[i] # b[i] THEN a[i] < b[i]
    ELSE LtFrom(a, b, i + 1)
LtU64(a, b) == LtFrom(a, b, 1)

\* the same bits read as int64_t (two's complement): the top bit is the sign
FlipTop(a) == [a EXCEPT ![1] = (a[1] + 2^15) % LimbBase]
LtI64(a, b) == LtU64(FlipTop(a), FlipTop(b))

---------------------------------------------------------------------------
(* Pointers and the heap *)

NULL == "NULL"
\* what a pointer read out of a union last written through its integer
\* member holds: not the address of any block
WILD == "WILD"
Addrs == <<"a1", "a2">>
AddrSet == {Addrs[i] : i \in 1..Len(Addrs)}

\* a char * : <<>> is the null pointer, <<s>> points at the text s
NullStr == <<>>
Str(s) == <<s>>

FreeBlock == [st |-> "none", data |-> <<>>]

\* free(ptr) of a uint64_t array
FreeList(m, p) ==
    IF p = NULL THEN m
    ELSE IF p \in AddrSet /\ m.heap.list[p].st = "live"
         THEN [m EXCEPT !.heap.list[p] = [st |-> "freed", data |-> <<>>]]
         ELSE [m EXCEPT !.err.badfree = TRUE]

\* free(ptr) of one of the span's single blocks: "span", "desc", "prid"
FreeNamed(m, name, isNull) ==
    IF isNull THEN m
    ELSE IF m.heap[name] = "live"
         THEN [m EXCEPT !.heap[name] = "freed"]
         ELSE [m EXCEPT !.err.badfree = TRUE]

\* the first address malloc can hand out, or NULL when memory is exhausted
RECURSIVE FirstFree(_, _)
FirstFree(h, i) ==
    IF i > Len(Addrs) THEN NULL
    ELSE IF h.list[Addrs[i]].st # "live" THEN Addrs[i]
    ELSE FirstFree(h, i + 1)

---------------------------------------------------------------------------
(* struct htrace_span and its parent union *)

SingleOf(id) == [member |-> "single", val |-> id]
ListOf(p) == [member |-> "list", val |-> p]

\* span->parent.single
ReadSingle(parent) ==
    IF parent.member = "single" THEN parent.val
    ELSE IF parent.val = NULL THEN Id0 ELSE Id1
\* span->parent.list
ReadList(parent) ==
    IF parent.member = "list" THEN parent.val ELSE WILD

NoSpan ==
    [desc |-> NullStr, begin_ms |-> 0, end_ms |-> 0, span_id |-> Id0,
     prid |-> NullStr, num_parents |-> 0, parent |-> ListOf(NULL)]

\* the parent identifiers the span holds, in stored order
Parents(m) ==
    LET n == m.span.num_parents
        p == ReadList(m.span.parent)
    IN  IF n = 0 THEN <<>>
        ELSE IF n = 1 THEN <<ReadSingle(m.span.parent)>>
        ELSE IF p \in AddrSet /\ Len(m.heap.list[p].data) >= n
             THEN SubSeq(m.heap.list[p].data, 1, n)
             ELSE <<>>

\* the list pointer refers to a live block that holds num_parents entries
ListValid(m) ==
    LET p == ReadList(m.span.parent)
    IN  /\ p \in AddrSet
        /\ m.heap.list[p].st = "live"
        /\ Len(m.heap.list[p].data) >= m.span.num_parents

---------------------------------------------------------------------------
(* htrace_span_alloc *)

htrace_span_alloc(m, d, begin, id, oom) ==
    IF oom = "span" THEN m
    ELSE IF oom = "desc"
         THEN [m EXCEPT !.heap.span = "freed"]
         ELSE [m EXCEPT !.sp = "live",
                        !.heap.span = "live",
                        !.heap.desc = "live",
                        !.span = [desc |-> Str(d), begin_ms |-> begin,
                                  end_ms |-> 0, span_id |-> id,
                                  prid |-> NullStr, num_parents |-> 0,
                                  parent |-> ListOf(NULL)]]

(* htrace_span_free *)

htrace_span_free_any_parent(m) ==
    IF m.sp = NULL THEN m
    ELSE LET m1 == FreeNamed(m, "desc", m.span.desc = NullStr)
             m2 == FreeNamed(m1, "prid", m.span.prid = NullStr)
             m3 == IF m.span.num_parents >= 1
                   THEN FreeList(m2, ReadList(m.span.parent))
                   ELSE m2
             m4 == FreeNamed(m3, "span", FALSE)
         IN  [m4 EXCEPT !.sp = "freed"]

htrace_span_free(m) ==
    IF m.sp = NULL THEN m
    ELSE LET m1 == FreeNamed(m, "desc", m.span.desc = NullStr)
             m2 == FreeNamed(m1, "prid", m.span.prid = NullStr)
             m3 == IF m.span.num_parents > 1
                   THEN FreeList(m2, ReadList(m.span.parent))
                   ELSE m2
             m4 == FreeNamed(m3, "span", FALSE)
         IN  [m4 EXCEPT !.sp = "freed"]

---------------------------------------------------------------------------
(* compare_spanids and qsort *)

compare_spanids_signed(a, b) ==
    IF LtI64(a, b) THEN -1
    ELSE IF LtI64(b, a) THEN 1
    ELSE 0

compare_spanids(a, b) ==
    IF LtU64(a, b) THEN -1
    ELSE IF LtU64(b, a) THEN 1
    ELSE 0

\* qsort(base, n, sizeof(uint64_t), compare_spanids): the entries of base in
\* an order in which no entry compares greater than a later one
RECURSIVE InsertSorted(_, _)
InsertSorted(s, x) ==
    IF s = <<>> THEN <<x>>
    ELSE IF compare_spanids(x, Head(s)) <= 0 THEN <<x>> \o s
    ELSE <<Head(s)>> \o InsertSorted(Tail(s), x)

RECURSIVE qsort(_)
qsort(base) ==
    IF base = <<>> THEN <<>>
    ELSE InsertSorted(qsort(SubSeq(base, 1, Len(base) - 1)), base[Len(base)])

---------------------------------------------------------------------------
(* htrace_span_sort_and_dedupe_parents *)

RECURSIVE DedupeLoop_stale_prev(_, _, _, _, _)
DedupeLoop_stale_prev(l, i, j, prev, num_parents) ==
    IF i >= num_parents THEN [list |-> l, j |-> j, prev |-> prev]
    ELSE LET id == l[i + 1]
         IN  IF id # prev
             THEN DedupeLoop_stale_prev([l EXCEPT ![j + 1] = l[i + 1]], i + 1,
                                        j + 1, prev, num_parents)
             ELSE DedupeLoop_stale_prev(l, i + 1, j, prev, num_parents)

\* the for loop of lines 99-105: list, write cursor j and prev after the
\* iterations i, i+1, ..., num_parents-1 (C indices; list[k] is l[k+1])
RECURSIVE DedupeLoop(_, _, _, _, _)
DedupeLoop(l, i, j, prev, num_parents) ==
    IF i >= num_parents THEN [list |-> l, j |-> j, prev |-> prev]
    ELSE LET id == l[i + 1]
         IN  IF id # prev
             THEN DedupeLoop([l EXCEPT ![j + 1] = l[i + 1]], i + 1, j + 1, id,
                             num_parents)
             ELSE DedupeLoop(l, i + 1, j, prev, num_parents)

ReallocOutcomes == {"same", "moved", "fail"}

\* realloc(span->parent.list, sizeof(uint64_t) * j) and the assignment of
\* its result when it is not NULL
Shrink_failure_drops_list(m, p, j, outcome) ==
    LET q == FirstFree(m.heap, 1)
        old == m.heap.list[p].data
    IN  IF outcome = "fail" \/ (outcome = "moved" /\ q = NULL)
        THEN [m EXCEPT !.span.parent = ListOf(NULL)]
        ELSE IF outcome = "same"
             THEN [m EXCEPT !.heap.list[p].data = SubSeq(old, 1, j)]
             ELSE [m EXCEPT !.heap.list[p] = [st |-> "freed", data |-> <<>>],
                            !.heap.list[q] = [st |-> "live",
                                              data |-> SubSeq(old, 1, j)],
                            !.span.parent = ListOf(q)]

Shrink(m, p, j, outcome) ==
    LET q == FirstFree(m.heap, 1)
        old == m.heap.list[p].data
    IN  IF outcome = "fail" \/ (outcome = "moved" /\ q = NULL) THEN m
        ELSE IF outcome = "same"
             THEN [m EXCEPT !.heap.list[p].data = SubSeq(old, 1, j)]
             ELSE [m EXCEPT !.heap.list[p] = [st |-> "freed", data |-> <<>>],
                            !.heap.list[q] = [st |-> "live",
                                              data |-> SubSeq(old, 1, j)],
                            !.span.parent = ListOf(q)]

Rederive_keeps_list(m, p, r, num_parents, outcome) ==
    LET m1 == [m EXCEPT !.span.num_parents = r.j]
    IN  IF r.j # num_parents
        THEN Shrink(m1, p, r.j, outcome)
        ELSE m1

\* lines 106-119: the new count and the choice of representation
Rederive(m, p, r, num_parents, outcome) ==
    LET m1 == [m EXCEPT !.span.num_parents = r.j]
    IN  IF r.j = 1
        THEN [FreeList(m1, p) EXCEPT !.span.parent = SingleOf(r.prev)]
        ELSE IF r.j # num_parents
             THEN Shrink(m1, p, r.j, outcome)
             ELSE m1

htrace_span_sort_and_dedupe_parents_cursor_at_zero(m, outcome) ==
    LET num_parents == m.span.num_parents
        p == ReadList(m.span.parent)
    IN  IF num_parents <= 1 THEN m
        ELSE IF ~ListValid(m) THEN [m EXCEPT !.err.fault = TRUE]
        ELSE LET data == m.heap.list[p].data
                 sorted == qsort(SubSeq(data, 1, num_parents))
                             \o SubSeq(data, num_parents + 1, Len(data))
                 r == DedupeLoop(sorted, 1, 0, sorted[1], num_parents)
                 m1 == [m EXCEPT !.heap.list[p].data = r.list]
             IN  Rederive(m1, p, r, num_parents, outcome)

htrace_span_sort_and_dedupe_parents(m, outcome) ==
    LET num_parents == m.span.num_parents
        p == ReadList(m.span.parent)
    IN  IF num_parents <= 1 THEN m
        ELSE IF ~ListValid(m) THEN [m EXCEPT !.err.fault = TRUE]
        ELSE LET data == m.heap.list[p].data
                 sorted == qsort(SubSeq(data, 1, num_parents))
                             \o SubSeq(data, num_parents + 1, Len(data))
                 r == DedupeLoop(sorted, 1, 1, sorted[1], num_parents)
                 m1 == [m EXCEPT !.heap.list[p].data = r.list]
             IN  Rederive(m1, p, r, num_parents, outcome)

---------------------------------------------------------------------------
(* printf conversions *)

\* the character of a digit value 0..15
DigitChar(d) == SubSeq("0123456789abcdef", d + 1, d + 1)

\* %x of one 16-bit limb, all four digits
Hex4(l) ==
    DigitChar(l \div 4096) \o DigitChar((l \div 256) % 16)
        \o DigitChar((l \div 16) % 16) \o DigitChar(l % 16)

RECURSIVE StripZeros(_)
StripZeros(t) ==
    IF Len(t) > 1 /\ SubSeq(t, 1, 1) = "0"
    THEN StripZeros(SubSeq(t, 2, Len(t)))
    ELSE t

RECURSIVE PadZeros(_, _)
PadZeros(t, width) ==
    IF Len(t) >= width THEN t ELSE PadZeros("0" \o t, width)

\* "%" PRIx64: lower-case hexadecimal, no leading zeros
PRIx64(id) == StripZeros(Hex4(id[1]) \o Hex4(id[2]) \o Hex4(id[3]) \o Hex4(id[4]))
\* "%016" PRIx64: the same, zero-padded to at least 16 characters
PRIx64_016(id) == PadZeros(PRIx64(id), 16)

RECURSIVE DecNat(_)
DecNat(n) ==
    IF n < 10 THEN DigitChar(n)
    ELSE DecNat(n \div 10) \o DigitChar(n % 10)
\* "%" PRId64: signed decimal
PRId64(n) == IF n < 0 THEN "-" \o DecNat(0 - n) ELSE DecNat(n)

---------------------------------------------------------------------------
(* fwdprintf: the bounded formatting primitive of util/string.c *)

\* the terminating null byte, as it is shown in the contents of a buffer
NUL == "$"
Min(a, b) == IF a < b THEN a ELSE b

\* the encoder's cursor: mem, the bytes written so far to the memory at the
\* caller's buffer, from its first byte on (no buffer when isnull); pos, the
\* offset of the write position; max, the remaining capacity; ret, the
\* running total
Cursor(isnull, max) ==
    [isnull |-> isnull, mem |-> "", pos |-> 0, max |-> max, ret |-> 0]

\* fwdprintf(&buf, &max, fmt, ...) where the conversions of fmt yield text:
\* vsnprintf writes at most max bytes, the terminator included, at the
\* cursor; the cursor advances by min(length, max); the full length is
\* returned and added to ret
fwdprintf(e, text) ==
    LET len == Len(text)
        c == Min(len, e.max - 1)
        adv == Min(len, e.max)
    IN  IF e.isnull \/ e.max <= 0
        THEN [e EXCEPT !.ret = @ + len]
        ELSE [e EXCEPT
                !.mem = SubSeq(@, 1, e.pos) \o SubSeq(text, 1, c) \o NUL
                          \o SubSeq(@, e.pos + c + 2, Len(@)),
                !.pos = @ + adv,
                !.max = @ - adv,
                !.ret = @ + len]

---------------------------------------------------------------------------
(* span_json_sprintf_impl, span_json_size, span_json_sprintf *)

\* span->parent.list[i]
ListAt(m, i) ==
    IF ListValid(m) THEN m.heap.list[ReadList(m.span.parent)].data[i + 1]
    ELSE Id0

RECURSIVE ParentLoop_skip_repeats(_, _, _, _, _)
ParentLoop_skip_repeats(m, e, i, prefix, num_parents) ==
    IF i >= num_parents THEN e
    ELSE IF i > 0 /\ ListAt(m, i) = ListAt(m, i - 1)
    THEN ParentLoop_skip_repeats(m, e, i + 1, prefix, num_parents)
    ELSE ParentLoop_skip_repeats(m,
                    fwdprintf(e, prefix \o "\"" \o PRIx64_016(ListAt(m, i))
                                   \o "\""),
                    i + 1, ",", num_parents)

\* lines 164-168: the loop over the list, from index i with the given prefix
RECURSIVE ParentLoop(_, _, _, _, _)
ParentLoop(m, e, i, prefix, num_parents) ==
    IF i >= num_parents THEN e
    ELSE ParentLoop(m,
                    fwdprintf(e, prefix \o "\"" \o PRIx64_016(ListAt(m, i))
                                   \o "\""),
                    i + 1, ",", num_parents)

EncodeParents_omit_empty(m, e) ==
    LET num_parents == m.span.num_parents
    IN  IF num_parents = 1
        THEN fwdprintf(e, "\"p\":[\""
                            \o PRIx64_016(ReadSingle(m.span.parent)) \o "\"]")
        ELSE IF num_parents > 1
        THEN fwdprintf(ParentLoop(m, fwdprintf(e, "\"p\":["), 0, "",
                                  num_parents),
                       "]")
        ELSE e

\* lines 156-170
EncodeParents(m, e) ==
    LET num_parents == m.span.num_parents
    IN  IF num_parents = 0 THEN fwdprintf(e, "\"p\":[]")
        ELSE IF num_parents = 1
        THEN fwdprintf(e, "\"p\":[\""
                            \o PRIx64_016(ReadSingle(m.span.parent)) \o "\"]")
        ELSE IF num_parents > 1
        THEN fwdprintf(ParentLoop(m, fwdprintf(e, "\"p\":["), 0, "",
                                  num_parents),
                       "]")
        ELSE e

\* lines 147-155
EncodeHead(m, e) ==
    LET s == m.span
        e1 == fwdprintf(e, "{\"s\":\"" \o PRIx64_016(s.span_id)
                             \o "\",\"b\":" \o PRId64(s.begin_ms)
                             \o ",\"e\":" \o PRId64(s.end_ms) \o ",")
        e2 == IF s.desc # NullStr
              THEN fwdprintf(e1, "\"d\":\"" \o s.desc[1] \o "\",")
              ELSE e1
    IN  IF s.prid # NullStr
        THEN fwdprintf(e2, "\"r\":\"" \o s.prid[1] \o "\",")
        ELSE e2

span_json_sprintf_impl_no_terminator(m, e) ==
    fwdprintf(EncodeParents(m, EncodeHead(m, e)), "}")

\* the cursor after the last fwdprintf, with the value returned in ret
span_json_sprintf_impl(m, e) ==
    LET e1 == fwdprintf(EncodeParents(m, EncodeHead(m, e)), "}")
    IN  [e1 EXCEPT !.ret = @ + 1]

\* span_json_sprintf_impl(scope, 0, NULL)
span_json_size(m) == span_json_sprintf_impl(m, Cursor(TRUE, 0)).ret

\* span_json_sprintf_impl(scope, max, buf); the function is void: the caller
\* is left with the bytes in buf and nothing else
span_json_sprintf_off_by_one(m, max) ==
    span_json_sprintf_impl(m, Cursor(FALSE, max + 1))

span_json_sprintf(m, max) == span_json_sprintf_impl(m, Cursor(FALSE, max))

---------------------------------------------------------------------------
(* Operations on a span that live outside span.c *)

\* AppendParent: Empty -> Single(id); Single(a) -> Many([a, id]) in a fresh
\* allocation; Many(list) -> Many(list ++ [id]).  Nothing is changed when the
\* allocation fails.
AppendParent(m, id) ==
    LET n == m.span.num_parents
        p == ReadList(m.span.parent)
        q == FirstFree(m.heap, 1)
    IN  IF n = 0
        THEN [m EXCEPT !.span.parent = SingleOf(id), !.span.num_parents = 1]
        ELSE IF n = 1
        THEN IF q = NULL THEN m
             ELSE [m EXCEPT
                     !.heap.list[q] =
                         [st |-> "live",
                          data |-> <<ReadSingle(m.span.parent), id>>],
                     !.span.parent = ListOf(q),
                     !.span.num_parents = 2]
        ELSE IF ~ListValid(m) THEN [m EXCEPT !.err.fault = TRUE]
        ELSE [m EXCEPT
                !.heap.list[p].data = Append(SubSeq(@, 1, n), id),
                !.span.num_parents = n + 1]

\* set-process-id: the span takes a copy of the text
SetProcessId(m, r) ==
    [m EXCEPT !.span.prid = Str(r), !.heap.prid = "live"]

\* set-end-time
SetEndTime(m, t) == [m EXCEPT !.span.end_ms = t]

---------------------------------------------------------------------------
(* The state machine *)

M == [sp |-> sp, span |-> span, heap |-> heap, err |-> err]

Become(m) ==
    /\ sp' = m.sp
    /\ span' = m.span
    /\ heap' = m.heap
    /\ err' = m.err

M0 ==
    [sp |-> NULL,
     span |-> NoSpan,
     heap |-> [span |-> "none", desc |-> "none", prid |-> "none",
               list |-> [a \in AddrSet |-> FreeBlock]],
     err |-> [badfree |-> FALSE, fault |-> FALSE]]

NoPre == <<>>
Hist(op, pre, run, realloc, apset) ==
    [last |-> op, pre |-> pre, normRun |-> run, realloc |-> realloc,
     apset |-> apset]
Hist0 == Hist("init", NoPre, 0, "none", {})

NoValue == <<>>
Out0 == [size_ret |-> NoValue, impl_ret |-> NoValue, sprintf_ret |-> NoValue,
         max |-> NoValue, buf |-> ""]

\* the identifiers parents are drawn from
ParentIds == {Id3, Id5, Id7, IdTop3}
\* the (description, begin_ms, span_id) a span is constructed with
AllocInputs == {<<"foo", 100, Id1>>}
ProcessIds == {"p1"}

Init ==
    /\ sp = M0.sp
    /\ span = M0.span
    /\ heap = M0.heap
    /\ err = M0.err
    /\ hist = Hist0
    /\ out = Out0

Construct ==
    /\ sp = NULL
    /\ \E a \in AllocInputs, oom \in {"none", "span", "desc"} :
         /\ Become(htrace_span_alloc(M, a[1], a[2], a[3], oom))
         /\ hist' = Hist(IF oom = "none" THEN "alloc" ELSE "alloc_failed",
                         NoPre, 0, "none", {})
    /\ UNCHANGED out

SetPrid ==
    /\ sp = "live"
    /\ span.prid = NullStr
    /\ \E r \in ProcessIds : Become(SetProcessId(M, r))
    /\ hist' = Hist("set_prid", NoPre, 0, "none", hist.apset)
    /\ UNCHANGED out

AddParent ==
    /\ sp = "live"
    /\ span.num_parents < MaxParents
    /\ \E id \in ParentIds :
         /\ Become(AppendParent(M, id))
         /\ hist' = Hist("append", NoPre, 0, "none", hist.apset \cup {id})
    /\ UNCHANGED out

\* whether this call reaches the realloc of line 115
Reallocs(m, after) ==
    /\ m.span.num_parents > 1
    /\ after.span.num_parents > 1
    /\ after.span.num_parents # m.span.num_parents

Normalize ==
    /\ sp = "live"
    /\ \E outcome \in ReallocOutcomes :
         LET after == htrace_span_sort_and_dedupe_parents(M, outcome)
         IN  /\ Become(after)
             /\ hist' = Hist("normalize", M,
                             IF hist.normRun < 2 THEN hist.normRun + 1 ELSE 2,
                             IF Reallocs(M, after) THEN outcome ELSE "none",
                             hist.apset)
    /\ UNCHANGED out

Destroy ==
    /\ sp \in {NULL, "live"}
    /\ Become(htrace_span_free(M))
    /\ hist' = Hist(IF sp = NULL THEN "free_null" ELSE "free", M, 0, "none",
                    hist.apset)
    /\ UNCHANGED out

Next ==
    \/ Construct
    \/ SetPrid
    \/ AddParent
    \/ Normalize
    \/ Destroy

Spec == Init /\ [][Next]_vars

---------------------------------------------------------------------------
(* The encoder applied to the spans a caller can have built *)

\* AppendParent for each identifier of ps in turn
RECURSIVE AppendAll(_, _)
AppendAll(m, ps) ==
    IF ps = <<>> THEN m ELSE AppendAll(AppendParent(m, Head(ps)), Tail(ps))

SeqsUpTo(S, n) == UNION {[1..k -> S] : k \in 0..n}
Range(f) == {f[i] : i \in DOMAIN f}

EncAllocInputs == {<<"foo", 100, Id1>>, <<"", 0, IdTop3>>}
EncEndTimes == {0, 200}
EncParentIds == {Id3, Id9, IdTop3}

EncInit ==
    \E a \in EncAllocInputs,
       r \in {NullStr} \cup {Str(x) : x \in ProcessIds},
       t \in EncEndTimes,
       ps \in SeqsUpTo(EncParentIds, MaxEncParents),
       norm \in BOOLEAN :
        LET m1 == htrace_span_alloc(M0, a[1], a[2], a[3], "none")
            m2 == IF r = NullStr THEN m1 ELSE SetProcessId(m1, r[1])
            m3 == AppendAll(SetEndTime(m2, t), ps)
            m4 == IF norm
                  THEN htrace_span_sort_and_dedupe_parents(m3, "same")
                  ELSE m3
        IN  /\ sp = m4.sp
            /\ span = m4.span
            /\ heap = m4.heap
            /\ err = m4.err
            /\ hist = IF norm
                      THEN Hist("normalize", m3, 1, "none", Range(ps))
                      ELSE Hist("append", NoPre, 0, "none", Range(ps))
            /\ out = Out0

\* the caller measures the span
Measure ==
    /\ sp = "live"
    /\ out.max = NoValue
    /\ out' = [out EXCEPT !.size_ret = <<span_json_size(M)>>]
    /\ UNCHANGED <<sp, span, heap, err, hist>>

\* the capacities a caller hands to the write pass
Capacities(m) == 0..(span_json_size(m) + 1)

\* the caller writes the span into a fresh buffer of max bytes
Write ==
    /\ sp = "live"
    /\ out.max = NoValue
    /\ out.size_ret = NoValue
    /\ \E max \in Capacities(M) :
         LET e == span_json_sprintf(M, max)
         IN  out' = [out EXCEPT !.impl_ret = <<e.ret>>,
                                !.sprintf_ret = NoValue,
                                !.max = <<max>>,
                                !.buf = e.mem]
    /\ UNCHANGED <<sp, span, heap, err, hist>>

EncNext ==
    \/ Measure
    \/ Write

EncSpec == EncInit /\ [][EncNext]_vars

---------------------------------------------------------------------------
(* The encoded shape, as the wire format states it *)

Quoted(t) == "\"" \o t \o "\""
Member(key, value) == Quoted(key) \o ":" \o value

RECURSIVE Joined(_)
Joined(parts) ==
    IF parts = <<>> THEN ""
    ELSE IF Len(parts) = 1 THEN parts[1]
    ELSE parts[1] \o "," \o Joined(Tail(parts))

\* an identifier as exactly 16 lower-case hexadecimal digits
Hex16(id) == Hex4(id[1]) \o Hex4(id[2]) \o Hex4(id[3]) \o Hex4(id[4])

JsonShape(m) ==
    LET s == m.span
        ps == Parents(m)
    IN  "{" \o Joined(
              <<Member("s", Quoted(Hex16(s.span_id))),
                Member("b", PRId64(s.begin_ms)),
                Member("e", PRId64(s.end_ms))>>
              \o (IF s.desc = NullStr THEN <<>>
                  ELSE <<Member("d", Quoted(s.desc[1]))>>)
              \o (IF s.prid = NullStr THEN <<>>
                  ELSE <<Member("r", Quoted(s.prid[1]))>>)
              \o <<Member("p", "[" \o Joined([i \in 1..Len(ps) |->
                                               Quoted(Hex16(ps[i]))])
                               \o "]")>>)
        \o "}"

\* the span of the concrete scenario and its encoding
IsFooSpan ==
    /\ span.span_id = Id1 /\ span.begin_ms = 100 /\ span.end_ms = 200
    /\ span.desc = Str("foo") /\ span.prid = NullStr
    /\ span.num_parents = 0
FooJson ==
    "{\"s\":\"0000000000000001\",\"b\":100,\"e\":200,\"d\":\"foo\",\"p\":[]}"

Written == out.max # NoValue
Measured == out.size_ret # NoValue

---------------------------------------------------------------------------
(* Reading the p array back out of an encoded text *)

IsHexChar(c) == \E d \in 0..15 : DigitChar(d) = c
DigitValue(c) == CHOOSE d \in 0..15 : DigitChar(d) = c
CharAt(t, i) == SubSeq(t, i, i)

\* the value of four hexadecimal digits
ParseHex4(t) ==
    DigitValue(CharAt(t, 1)) * 4096 + DigitValue(CharAt(t, 2)) * 256
        + DigitValue(CharAt(t, 3)) * 16 + DigitValue(CharAt(t, 4))
ParseHex16(t) ==
    <<ParseHex4(SubSeq(t, 1, 4)), ParseHex4(SubSeq(t, 5, 8)),
      ParseHex4(SubSeq(t, 9, 12)), ParseHex4(SubSeq(t, 13, 16))>>

\* the position of the last occurrence of the character c in t, or 0
RECURSIVE LastIndexFrom(_, _, _)
LastIndexFrom(t, c, i) ==
    IF i = 0 THEN 0
    ELSE IF CharAt(t, i) = c THEN i
    ELSE LastIndexFrom(t, c, i - 1)
LastIndex(t, c) == LastIndexFrom(t, c, Len(t))

\* the entries of a comma-separated list of quoted 16-digit identifiers:
\* each entry takes 18 characters and all but the last are followed by ","
EntryWidth == Len("\"0000000000000000\"")
EntryOk(inner, k) ==
    LET at == (k - 1) * (EntryWidth + 1)
    IN  /\ CharAt(inner, at + 1) = "\""
        /\ CharAt(inner, at + EntryWidth) = "\""
        /\ \A i \in 2..(EntryWidth - 1) : IsHexChar(CharAt(inner, at + i))
        /\ (at + EntryWidth < Len(inner)
              => CharAt(inner, at + EntryWidth + 1) = ",")
ParseEntries(inner) ==
    LET n == (Len(inner) + 1) \div (EntryWidth + 1)
        ok == /\ (inner = "" \/ Len(inner) = n * (EntryWidth + 1) - 1)
              /\ (inner # "" => \A k \in 1..n : EntryOk(inner, k))
    IN  [ok |-> ok,
         ids |-> IF ok /\ inner # ""
                 THEN [k \in 1..n |->
                         ParseHex16(SubSeq(inner, (k - 1) * (EntryWidth + 1) + 2,
                                           k * (EntryWidth + 1) - 2))]
                 ELSE <<>>]

\* the p member of an encoded span: the text is  ...,"p":[ entries ]}
ParseP(t) ==
    LET lb == LastIndex(t, "[")
        rb == LastIndex(t, "]")
    IN  IF /\ lb > 5
           /\ rb > lb
           /\ rb = Len(t) - 1
           /\ SubSeq(t, lb - 5, lb) = ",\"p\":["
        THEN ParseEntries(SubSeq(t, lb + 1, rb - 1))
        ELSE [ok |-> FALSE, ids |-> <<>>]

---------------------------------------------------------------------------
(* Claims about the encoder, checked under EncSpec *)

Size == span_json_size(M)
ExactWrite == Written /\ out.max[1] = Size
Truncated == Written /\ out.max[1] < Size
NoMemoryError == ~err.badfree /\ ~err.fault

C6_MeasureIsShapeLengthPlusOne ==
    /\ Measured => out.size_ret = <<Len(JsonShape(M)) + 1>>
    /\ IsFooSpan =>
          /\ JsonShape(M) = FooJson
          /\ (Measured => out.size_ret = <<Len(FooJson) + 1>>)
          /\ (ExactWrite => out.buf = FooJson \o NUL)

C6_Witness ==
    /\ IsFooSpan
    /\ Measured
    /\ out.size_ret = <<Len(FooJson) + 1>>

\* C7: the p array of the encoded text holds one entry per stored parent
\* identifier, in stored order, duplicates included, whether or not the
\* parents were normalized
C7_EncodesStoredParents ==
    Written /\ out.max[1] >= Size =>
        LET got == ParseP(SubSeq(out.buf, 1, Size - 1))
        IN  /\ got.ok
            /\ got.ids = Parents(M)

\* an unsorted list with a repeated identifier, written without Normalize
C7_Witness ==
    /\ ExactWrite
    /\ hist.last = "append"
    /\ Parents(M) = <<Id9, Id3, Id9>> \/ Parents(M) = <<Id9, Id9>>
    /\ ParseP(SubSeq(out.buf, 1, Size - 1)).ids = Parents(M)

---------------------------------------------------------------------------
(* Claims about the parent set and the life cycle, checked under Spec *)

Normalized == hist.last = "normalize"
Before == Parents(hist.pre)
Now == Parents(M)

StrictlyAscending(ps) ==
    \A i \in 1..(Len(ps) - 1) : LtU64(ps[i], ps[i + 1])

\* the members of a set of identifiers in ascending order
RECURSIVE SortedDistinct(_)
SortedDistinct(S) ==
    IF S = {} THEN <<>>
    ELSE LET least == CHOOSE x \in S : \A y \in S \ {x} : LtU64(x, y)
         IN  <<least>> \o SortedDistinct(S \ {least})

LiveLists(m) == {a \in AddrSet : m.heap.list[a].st = "live"}

\* the parent set as a caller sees it: count, representation, stored ids
ParentSet(m) ==
    [count |-> m.span.num_parents,
     variant |-> IF m.span.num_parents = 0 THEN "Empty"
                 ELSE IF m.span.parent.member = "single" THEN "Single"
                 ELSE "Many",
     ids |-> Parents(m)]

\* C1: after Normalize of a non-empty parent set the stored identifiers are
\* strictly ascending and are exactly the distinct values that were appended
C1_SortedDistinctAppended ==
    Normalized /\ Before # <<>> =>
        /\ StrictlyAscending(Now)
        /\ Range(Now) = Range(Before)
        /\ Range(Now) = hist.apset

C1_Witness ==
    /\ Normalized
    /\ Before = <<Id5, Id3, Id5, Id3, Id7>>
    /\ Now = <<Id3, Id5, Id7>>
    /\ ParentSet(M).variant = "Many"

\* C2: a second Normalize right after a Normalize leaves count, variant and
\* stored identifiers as the first one left them
C2_NormalizeIdempotent ==
    hist.normRun = 2 => ParentSet(M) = ParentSet(hist.pre)

\* the second Normalize ran on a list that the first one had compacted
C2_Witness ==
    /\ hist.normRun = 2
    /\ span.num_parents >= 2
    /\ ListValid(M)
    /\ Len(heap.list[ReadList(span.parent)].data) > span.num_parents

\* C3: after Normalize a heap list exists only for at least 2 distinct
\* identifiers and is then sorted ascending without duplicates; when all the
\* identifiers were equal the set is Single with count 1 and the list is
\* released; with 0 or 1 entries Normalize changes nothing
C3_ManyOnlyForTwoOrMore ==
    Normalized =>
        /\ hist.pre.span.num_parents <= 1 => M = hist.pre
        /\ (hist.pre.span.num_parents >= 2 /\ Cardinality(Range(Before)) = 1)
              => /\ span.num_parents = 1
                 /\ span.parent = SingleOf(Before[1])
                 /\ LiveLists(M) = {}
        /\ (LiveLists(M) # {} \/ span.num_parents > 1)
              => /\ span.num_parents >= 2
                 /\ ListValid(M)
                 /\ Cardinality(Range(Now)) = span.num_parents
                 /\ StrictlyAscending(Now)

C3_Witness ==
    /\ Normalized
    /\ Before = <<Id7, Id7>>
    /\ span.num_parents = 1
    /\ span.parent = SingleOf(Id7)
    /\ LiveLists(M) = {}

\* C8: while the span lives its list block is live exactly when it holds
\* more than one parent; once it is destroyed no block is live and none was
\* freed twice or wrongly; Destroy releases the list exactly when the count
\* is above 1; Destroy of a null span changes nothing
C8_EveryBlockReleasedOnce ==
    /\ NoMemoryError
    /\ sp = "live" =>
          LiveLists(M) = IF span.num_parents > 1
                         THEN {ReadList(span.parent)} ELSE {}
    /\ sp = "freed" =>
          /\ heap.span = "freed"
          /\ heap.desc = "freed"
          /\ heap.prid # "live"
          /\ LiveLists(M) = {}
    /\ hist.last = "free" =>
          ((\E a \in AddrSet : /\ hist.pre.heap.list[a].st = "live"
                               /\ heap.list[a].st = "freed")
             <=> hist.pre.span.num_parents > 1)
    /\ hist.last = "free_null" => M = hist.pre

\* a span destroyed as Single after Normalize had released its list
C8_Witness ==
    /\ sp = "freed"
    /\ hist.last = "free"
    /\ hist.pre.span.num_parents = 1
    /\ hist.pre.span.prid # NullStr
    /\ \E a \in AddrSet : heap.list[a].st = "freed"

TopBit(id) == id[1] >= 2^15

\* C9: the comparison never calls two different identifiers equal and puts
\* an identifier with the top bit set after one without; after Normalize no
\* identifier with the top bit set precedes one without, and no identifier
\* that was stored is missing
C9_UnsignedOrder ==
    /\ \A a \in ParentIds, b \in ParentIds :
          /\ (compare_spanids(a, b) = 0) <=> (a = b)
          /\ (TopBit(a) /\ ~TopBit(b))
                => compare_spanids(a, b) = 1 /\ compare_spanids(b, a) = -1
    /\ Normalized =>
          /\ \A i \in 1..Len(Now), j \in 1..Len(Now) :
                (i < j) => ~(TopBit(Now[i]) /\ ~TopBit(Now[j]))
          /\ Range(Now) = Range(Before)

C9_Witness ==
    /\ Normalized
    /\ Len(Before) >= 3
    /\ Before[1] = IdTop3
    /\ Id3 \in Range(Before)
    /\ Now[1] = Id3
    /\ Now[Len(Now)] = IdTop3

\* C10: when Normalize reaches the shrinking realloc, then whatever realloc
\* does the parent set holds the sorted distinct identifiers with their
\* count, in the one live list block, which the span points to, and no
\* memory error occurs
C10_ShrinkOutcomeIrrelevant ==
    Normalized /\ hist.realloc # "none" =>
        /\ Now = SortedDistinct(Range(Before))
        /\ span.num_parents = Cardinality(Range(Before))
        /\ ListValid(M)
        /\ LiveLists(M) = {ReadList(span.parent)}
        /\ NoMemoryError

\* the realloc failed and the larger block was kept
C10_Witness ==
    /\ Normalized
    /\ hist.realloc = "fail"
    /\ ListValid(M)
    /\ Len(heap.list[ReadList(span.parent)].data) > span.num_parents
    /\ Now = SortedDistinct(Range(Before))

====
